---- MODULE Spec2Model ----
(***************************************************************************)
(* Model of src/sjs.py: SJSAutomation (login, captcha loop, check-in,      *)
(* user-info extraction, run).  One run() of one SJSAutomation object.     *)
(* Every call to a collaborator (browser, HTTP client, OCR service, PIL)   *)
(* is a step whose outcome the environment chooses: a value or a raise.    *)
(* Text is a sequence of one-character strings; a dict is a function.      *)
(***************************************************************************)
EXTENDS Naturals, Integers, Sequences, FiniteSets, TLC

VARIABLES
    pc,               \* position of the single thread of control
    ocr_service,      \* cfg.ocr_service is set (truthy)
    formhash,         \* self.formhash
    seccodehash,      \* self.seccodehash
    referer,          \* self.referer
    referer_field,    \* the account-space page loaded by _fetch_login_form has an
                      \* input named referer: "unknown" (not loaded), "absent",
                      \* "present"
    cookies,          \* self.cookies
    session_cookies,  \* self.session.cookies
    session_referer,  \* self.session.headers["Referer"]
    check_in_status,  \* self.check_in_status
    status_writes,    \* assignments to self.check_in_status made by do_sign_in
                      \* and by fetch_user_info in this run()
    i,                \* index of the captcha loop, `for _ in range(5)`
    content_type,     \* Content-Type of the last captcha response of login()
    login_resp,       \* response of login()'s credential POST, None before it
    ocr_resp,         \* response the OCR service gave the _recognize_captcha call
                      \* that has just returned, None otherwise
    seccodeverify,    \* local seccodeverify of login()
    login_ret,        \* outcome of login(): "none", "true", "false", "raised"
    drivers_started,  \* webdriver.Chrome(...) instances created
    drivers_quit,     \* driver.quit() calls
    driver_cookies,   \* cookie jar of the live browser
    calls,            \* requests made by the current login() call, per endpoint
    accepted,         \* texts _check_captcha returned True for in this login()
    payload,          \* form data of this login()'s credential POST, if made
    log,              \* browser operations of the current do_sign_in or
                      \* fetch_user_info call, in order, with the markup read
    sign_ret,         \* outcome of do_sign_in: "none", "true", "false"
    user_info,        \* outcome of fetch_user_info: NoInfo, None or a report
    lookups,          \* what the element lookups of fetch_user_info's step in
                      \* progress returned (locals elements, stats, all_elements)
    xm,               \* local xm of fetch_user_info
    stats,            \* locals jf, ww, cp, gx of fetch_user_info
    notify_lines,     \* local notify_lines of run()
    sent,             \* messages handed to notify.send, in order
    run_ret           \* outcome of run(): "none", "returned", "raised"

authVars == <<formhash, seccodehash, referer, cookies, session_cookies, session_referer,
              referer_field>>
captchaVars == <<i, content_type, seccodeverify, calls, accepted, payload, login_resp,
                 ocr_resp>>
driverVars == <<drivers_started, drivers_quit, driver_cookies>>
signVars == <<check_in_status, status_writes, log, sign_ret>>
infoLocals == <<lookups, xm, stats>>
reportVars == <<user_info, infoLocals, notify_lines, sent, run_ret>>

vars == <<pc, ocr_service, login_ret, authVars, captchaVars, driverVars, signVars,
          reportVars>>

(***************************************************************************)
(* Values                                                                  *)
(***************************************************************************)
\* Python's None, as returned by get_attribute for a missing attribute.
None == "None"
\* The empty str.
Empty == ""

\* Values the `value` attribute of the referer input can have.
RefererValues == {None, "https://xsijishe.com/member.php?mod=logging"}
\* Values the `value` attribute of the formhash input can have.
FormhashValues == {None, Empty, "8f3c2a1b"}

\* DOM ids matched by //span[starts-with(@id, 'seccode_')]: the prefix chunk
\* followed by MaxIdChunks or fewer chunks.
MaxIdChunks == 1
IdChunks == {"seccode_", "cS"}
RECURSIVE ChunkSeqs(_)
ChunkSeqs(n) ==
    IF n = 0 THEN {<<>>}
    ELSE LET shorter == ChunkSeqs(n - 1)
         IN  shorter \cup {Append(s, c) : s \in {t \in shorter : Len(t) = n - 1}, c \in IdChunks}
SeccodeIds == {<<"seccode_">> \o s : s \in ChunkSeqs(MaxIdChunks)}

\* A dict with no key.
EmptyDict == [k \in {} |-> Empty]
\* Lists driver.get_cookies() can return (name, value records).
CookieLists ==
    { <<[name |-> "sid", value |-> "s1"]>>,
      <<[name |-> "sid", value |-> "s0"], [name |-> "auth", value |-> "a1"],
        [name |-> "sid", value |-> "s1"]>> }
\* Cookie dicts the site can set on the HTTP client with the login response.
ResponseCookies ==
    { EmptyDict,
      [k \in {"auth", "saltkey"} |-> IF k = "auth" THEN "a2" ELSE "k1"] }

\* Texts the OCR service can put in the "result" field.
OcrTexts ==
    { <<>>,
      <<"a", "b", "c">>,
      <<"a", "b", "c", "d">>,
      <<" ", "w", "x", "y", "z", " ">>,
      <<"a", "b", "c", "d", "e">> }

\* Length of an accepted captcha text.
CaptchaLen == 4
\* Iterations of the captcha loop.
MaxAttempts == 5

\* No assignment to check_in_status by either method yet.
NoWrites == [do_sign_in |-> 0, fetch_user_info |-> 0]

\* check_in_status values.
ALREADY_DONE == 0
JUST_COMPLETED == 1
FAILED == 2

NoPayload == [sent |-> FALSE]
ZeroCalls == [captcha_get |-> 0, recognize |-> 0, ocr_post |-> 0,
              check_captcha |-> 0, login_post |-> 0]

\* Content-Type header values of the captcha image response, as word sequences
\* (<<>>: the header is missing and .get() yields its default "").
ContentTypes == { <<>>, <<"text", "/", "html">>, <<"image", "/", "png">> }

\* Responses of the OCR service: the request raises, the status is not OK, the
\* body is no JSON, the JSON has no "result" key, "result" is no str, or a text.
OcrResponses ==
    {[kind |-> k, text |-> <<>>] : k \in {"raise", "not_ok", "bad_json", "no_key", "not_str"}}
    \cup {[kind |-> "text", text |-> t] : t \in OcrTexts}

\* Responses of the captcha verification endpoint.
CheckResponses ==
    {[raise |-> TRUE, ok |-> FALSE, succeed |-> FALSE]}
    \cup {[raise |-> FALSE, ok |-> o, succeed |-> s] : o \in BOOLEAN, s \in BOOLEAN}

\* Responses of the login endpoint: welcome phrase in the body or not, cookies set.
LoginResponses == {[welcome |-> w, set_cookies |-> c] : w \in BOOLEAN, c \in ResponseCookies}

\* Markers looked for in the rendered markup: "今日已签" and "您今天已经签到过了"
\* (already signed), "签到成功" (just signed).  Markup is the set of markers in it.
ALREADY_SIGNED == {"jin ri yi qian", "nin jintian yijing qiandao guo le"}
JUST_SIGNED == "qiandao chenggong"
Markups == SUBSET (ALREADY_SIGNED \cup {JUST_SIGNED})

\* Cookie jars of the fresh browser after the unauthenticated navigation.
AnonymousJars ==
    { EmptyDict,
      [k \in {"sid", "lastvisit"} |-> IF k = "sid" THEN "anon" ELSE "t0"] }

\* An entry of the browser log, the entry of a page_source read, and the entry
\* of the add_cookie loop with the dicts it passed.
Ev(op) == [op |-> op, markers |-> {}, added |-> {}]
Read(markers) == [op |-> "page_source", markers |-> markers, added |-> {}]
Added(dicts) == [op |-> "add_cookies", markers |-> {}, added |-> dicts]

\* self.domain = urlparse(self.cfg.base_url).hostname or "xsijishe.com"
domain == "xsijishe.com"

\* What fetch_user_info returns: None, or the report text (its variable parts).
NoInfo == [kind |-> "none", name |-> Empty, label |-> Empty,
           jf |-> Empty, ww |-> Empty, cp |-> Empty, gx |-> Empty]
NoneInfo == [NoInfo EXCEPT !.kind = "None"]

\* check_in_labels = ["已签到", "签到成功", "签到失败"]
check_in_labels == <<"yi qiandao", "qiandao chenggong", "qiandao shibai">>

\* Ids of the five fields read from the check-in page.
FieldIds == <<"qiandaobtnnum", "lxdays", "lxtdays", "lxlevel", "lxreward">>

\* Outcomes of the four name lookups, in the order of `xpaths`: no element, an
\* element whose stripped text is empty, or an element with the text UserNames[k].
UserNames == <<"name by #ct path", "name by div.h", "name by h2.mt", "name by #profile">>
NameResults == [1 .. Len(UserNames) -> {"no_elements", "empty_text", "text"}]
\* "未知用户"
DefaultName == "weizhi yonghu"

\* "未知" in all four statistics.
Unknown == "weizhi"
\* Variant of UnknownStats in which gx starts as the empty string.
UnknownStatsButGx == [jf |-> Unknown, ww |-> Unknown, cp |-> Unknown, gx |-> Empty]
UnknownStats == [jf |-> Unknown, ww |-> Unknown, cp |-> Unknown, gx |-> Unknown]
\* Elements a scan can visit: the text, and the keywords it contains
\* ("积分", "威望", "车票", "贡献").
El(text, has) == [text |-> text, has |-> has]
ElementLists ==
    { <<>>,
      <<El("jifen: 10", {"jifen"}), El("weiwang: 2", {"weiwang"})>>,
      <<El("chepiao: 3", {"chepiao"}), El("gongxian: 4", {"gongxian"}), El("other", {})>>,
      <<El("jifen 10 gongxian 4", {"jifen", "gongxian"})>> }
\* A scan visits `els` and then ends, or raises (<<>> and a raise: no container).
StatScans == {[els |-> e, raises |-> r] : e \in ElementLists, r \in BOOLEAN}
\* The broad scan when it is not run: it runs in the handler of the primary one.
NoScan == [els |-> <<>>, raises |-> FALSE]
FallbackScans(primary) == IF primary.raises THEN StatScans ELSE {NoScan}
\* The locals of fetch_user_info outside the steps that use them.
NoLookups == [names |-> <<>>, primary |-> NoScan, fallback |-> NoScan]
NoStats == [jf |-> Empty, ww |-> Empty, cp |-> Empty, gx |-> Empty]

\* A line of notify_lines: a fixed text, or the report.
Line(kind) == [kind |-> kind, info |-> NoInfo]

(***************************************************************************)
(* Pure helpers                                                            *)
(***************************************************************************)
\* str.replace(tok, "") on a chunk sequence: every occurrence is removed.
Replace(s, tok) == SelectSeq(s, LAMBDA c : c # tok)

\* str.strip(): leading and trailing blanks removed.
RECURSIVE LStrip(_)
LStrip(s) == IF s # <<>> /\ Head(s) = " " THEN LStrip(Tail(s)) ELSE s
RECURSIVE RStrip(_)
RStrip(s) ==
    IF s # <<>> /\ s[Len(s)] = " " THEN RStrip(SubSeq(s, 1, Len(s) - 1)) ELSE s
Strip(s) == RStrip(LStrip(s))

\* {c["name"]: c["value"] for c in list}: the last entry of a name wins.
RECURSIVE DictOf(_)
DictOf(list) ==
    IF list = <<>> THEN EmptyDict
    ELSE LET rest == DictOf(SubSeq(list, 1, Len(list) - 1))
             last == list[Len(list)]
         IN  [k \in DOMAIN rest \cup {last.name} |->
                 IF k = last.name THEN last.value ELSE rest[k]]

\* dict.update(other): other's value wins for a shared key.
Update(d, other) ==
    [k \in DOMAIN d \cup DOMAIN other |-> IF k \in DOMAIN other THEN other[k] ELSE d[k]]


\* Variant of IsImage that takes every response for an image.
IsImageAlways(header) == TRUE
\* "image" in content_type
IsImage(header) == \E k \in DOMAIN header : header[k] = "image"

\* Variant of WebDriverExitQuits with no `finally`: quit() only after a normal end.
QuitsOnlyOnNormalExit(raised) == IF raised THEN 0 ELSE 1
\* `finally: driver.quit()` of web_driver: quit() calls made when the with-body
\* is left, normally or by a raise.
WebDriverExitQuits(raised) == 1

\* _recognize_captcha with an endpoint configured: the text it returns for a response.
RecognizeResult(resp) ==
    IF resp.kind = "text" THEN Strip(resp.text)
    ELSE IF resp.kind = "no_key" THEN Strip(<<>>)
    ELSE <<>>

\* _check_captcha: resp.ok and "succeed" in resp.text; False when the GET raises.
CheckCaptchaResult(resp) == ~resp.raise /\ resp.ok /\ resp.succeed

\* Variant of HasCaptchaLen with `>=` for `==`.
HasAtLeastCaptchaLen(text) == Len(text) >= CaptchaLen
\* len(seccodeverify) == 4, the left operand of the acceptance test.
HasCaptchaLen(text) == Len(text) = CaptchaLen

\* The two "... in page_source" tests of do_sign_in and fetch_user_info.
\* Variant of AlreadySigned that tests only the first marker.
AlreadySignedFirstMarkerOnly(source) == "jin ri yi qian" \in source
AlreadySigned(source) == \E m \in ALREADY_SIGNED : m \in source
JustSigned(source) == JUST_SIGNED \in source

\* Variant of MergedCookies that updates the session's dict with self.cookies.
MergedCookiesOwnWins(own, session) == Update(session, own)
\* self.cookies.update(self.session.cookies.get_dict())
MergedCookies(own, session) == Update(own, session)

\* "欢迎您回来" in resp.text
LoginSucceeded(resp) == resp.welcome

(***************************************************************************)
(* Initial state: the object after __init__, run() about to start.         *)
(***************************************************************************)
Init ==
    /\ pc = "run"
    /\ ocr_service \in BOOLEAN
    /\ login_ret = "none"
    /\ formhash = Empty
    /\ seccodehash = <<>>
    /\ referer = Empty
    /\ referer_field = "unknown"
    /\ cookies = EmptyDict
    /\ session_cookies = EmptyDict
    /\ session_referer = "https://xsijishe.com"
    /\ i = 0
    /\ content_type = None
    /\ login_resp = None
    /\ ocr_resp = None
    /\ seccodeverify = <<>>
    /\ calls = ZeroCalls
    /\ accepted = {}
    /\ payload = NoPayload
    /\ drivers_started = 0
    /\ drivers_quit = 0
    /\ driver_cookies = EmptyDict
    /\ check_in_status = FAILED
    /\ status_writes = NoWrites
    /\ log = <<>>
    /\ sign_ret = "none"
    /\ user_info = NoInfo
    /\ lookups = NoLookups
    /\ xm = None
    /\ stats = NoStats
    /\ notify_lines = <<>>
    /\ sent = <<>>
    /\ run_ret = "none"

(***************************************************************************)
(* run() up to login(), and _fetch_login_form                              *)
(***************************************************************************)
\* run(): notify_lines = [], then login() is entered.
RunStart ==
    /\ pc = "run"
    /\ pc' = "fl_driver"
    /\ UNCHANGED <<ocr_service, login_ret, authVars, captchaVars, driverVars, signVars,
                   reportVars>>

\* An exception inside `try:` of _fetch_login_form with the browser running: the
\* with-block is left, `except` returns False, and login() returns False.
FetchLoginFormExcept ==
    /\ drivers_quit' = drivers_quit + WebDriverExitQuits(TRUE)
    /\ login_ret' = "false"
    /\ pc' = "run_after_login"
    /\ UNCHANGED <<ocr_service, authVars, captchaVars, drivers_started, driver_cookies,
                   signVars, reportVars>>

\* `with self.web_driver() as driver` in _fetch_login_form: Chrome starts or raises.
FetchLoginFormDriver ==
    /\ pc = "fl_driver"
    /\ \E started \in BOOLEAN :
          IF started
          THEN /\ drivers_started' = drivers_started + 1
               /\ driver_cookies' = EmptyDict
               /\ pc' = "fl_get_space"
               /\ UNCHANGED <<login_ret, drivers_quit>>
          ELSE /\ login_ret' = "false"
               /\ pc' = "run_after_login"
               /\ UNCHANGED driverVars
    /\ UNCHANGED <<ocr_service, authVars, captchaVars, signVars, reportVars>>

\* driver.get(".../home.php?mod=space"): the page loaded has a referer input or
\* has none.
FetchLoginFormGetSpace ==
    /\ pc = "fl_get_space"
    /\ \/ FetchLoginFormExcept
       \/ /\ \E field \in {"absent", "present"} : referer_field' = field
          /\ pc' = "fl_referer"
          /\ UNCHANGED <<ocr_service, login_ret, formhash, seccodehash, referer, cookies,
                         session_cookies, session_referer, captchaVars, driverVars,
                         signVars, reportVars>>

\* Variant of FetchLoginFormReferer in which a missing input is no error: the
\* referer stays as it is and _fetch_login_form goes on.
FetchLoginFormRefererOptional ==
    /\ pc = "fl_referer"
    /\ \/ FetchLoginFormExcept
       \/ /\ IF referer_field = "absent" THEN UNCHANGED referer
             ELSE \E v \in RefererValues : referer' = v
          /\ pc' = "fl_get_referer"
          /\ UNCHANGED <<ocr_service, login_ret, formhash, seccodehash, cookies,
                         session_cookies, session_referer, referer_field, captchaVars,
                         driverVars, signVars, reportVars>>

\* Wait for the referer input and read its value; the wait raises when it is absent.
FetchLoginFormReferer ==
    /\ pc = "fl_referer"
    /\ \/ FetchLoginFormExcept
       \/ /\ referer_field = "present"
          /\ \E v \in RefererValues : referer' = v
          /\ pc' = "fl_get_referer"
          /\ UNCHANGED <<ocr_service, login_ret, formhash, seccodehash, cookies,
                         session_cookies, session_referer, referer_field, captchaVars,
                         driverVars, signVars, reportVars>>

\* driver.get(self.referer)
FetchLoginFormGetReferer ==
    /\ pc = "fl_get_referer"
    /\ \/ FetchLoginFormExcept
       \/ /\ referer # None      \* get(None) is refused by the driver
          /\ pc' = "fl_formhash"
          /\ UNCHANGED <<ocr_service, login_ret, authVars, captchaVars, driverVars,
                         signVars, reportVars>>

\* Wait for the formhash input and read its value.
FetchLoginFormFormhash ==
    /\ pc = "fl_formhash"
    /\ \/ FetchLoginFormExcept
       \/ /\ \E v \in FormhashValues : formhash' = v
          /\ pc' = "fl_seccode"
          /\ UNCHANGED <<ocr_service, login_ret, seccodehash, referer, cookies,
                         session_cookies, session_referer, referer_field, captchaVars, driverVars,
                         signVars, reportVars>>

\* Wait for the seccode span and cut the prefix out of its id.
FetchLoginFormSeccode ==
    /\ pc = "fl_seccode"
    /\ \/ FetchLoginFormExcept
       \/ /\ \E id \in SeccodeIds : seccodehash' = Replace(id, "seccode_")
          /\ pc' = "fl_cookies"
          /\ UNCHANGED <<ocr_service, login_ret, formhash, referer, cookies,
                         session_cookies, session_referer, referer_field, captchaVars, driverVars,
                         signVars, reportVars>>

\* driver.get_cookies() copied to self.cookies and the session; the with-block
\* ends, the session's Referer header is set and True is returned to login().
FetchLoginFormCookies ==
    /\ pc = "fl_cookies"
    /\ \/ FetchLoginFormExcept
       \/ /\ \E list \in CookieLists :
                /\ cookies' = DictOf(list)
                /\ session_cookies' = Update(session_cookies, DictOf(list))
                /\ driver_cookies' = DictOf(list)
          /\ drivers_quit' = drivers_quit + WebDriverExitQuits(FALSE)
          /\ session_referer' = referer
          /\ pc' = "captcha_loop"
          /\ UNCHANGED <<ocr_service, login_ret, formhash, seccodehash, referer,
                         referer_field, captchaVars, drivers_started, signVars, reportVars>>

(***************************************************************************)
(* login(): captcha loop and credential submission                         *)
(***************************************************************************)
\* An exception in login() outside _fetch_login_form: login() has no handler,
\* the exception leaves it.
LoginRaise ==
    /\ login_ret' = "raised"
    /\ pc' = "run_after_login"

\* Loop head with attempts left: self.session.get(captcha_url); a response that
\* is no image sleeps and continues with the next attempt.
CaptchaGet ==
    /\ pc = "captcha_loop"
    /\ i < MaxAttempts
    /\ calls' = [calls EXCEPT !.captcha_get = @ + 1]
    /\ \/ /\ LoginRaise
          /\ UNCHANGED <<i, content_type>>
       \/ /\ \E header \in ContentTypes :
                /\ content_type' = header
                /\ IF IsImage(header)
                   THEN pc' = "captcha_encode" /\ UNCHANGED i
                   ELSE pc' = "captcha_loop" /\ i' = i + 1
          /\ UNCHANGED login_ret
    /\ UNCHANGED <<ocr_service, authVars, seccodeverify, accepted, payload, login_resp,
                   ocr_resp, driverVars, signVars, reportVars>>

\* Loop head with no attempt left: the `else` of the for loop returns False.
CaptchaExhausted ==
    /\ pc = "captcha_loop"
    /\ i >= MaxAttempts
    /\ login_ret' = "false"
    /\ pc' = "run_after_login"
    /\ UNCHANGED <<ocr_service, authVars, captchaVars, driverVars, signVars, reportVars>>

\* Image.open / img.save / b64encode of the fetched content.
CaptchaEncode ==
    /\ pc = "captcha_encode"
    /\ \/ LoginRaise
       \/ pc' = "captcha_ocr" /\ UNCHANGED login_ret
    /\ UNCHANGED <<ocr_service, authVars, captchaVars, driverVars, signVars, reportVars>>

\* Variant of RecognizeCaptcha without the test of cfg.ocr_service: the request
\* is made in every call.
RecognizeCaptchaAlwaysPosts ==
    /\ pc = "captcha_ocr"
    /\ \E resp \in OcrResponses :
          /\ ocr_resp' = resp
          /\ seccodeverify' = RecognizeResult(resp)
    /\ calls' = [calls EXCEPT !.recognize = @ + 1, !.ocr_post = @ + 1]
    /\ pc' = "captcha_check"
    /\ UNCHANGED <<ocr_service, login_ret, authVars, i, content_type, accepted, payload,
                   login_resp, driverVars, signVars, reportVars>>

\* seccodeverify = self._recognize_captcha(base64_img); the call has no way to
\* raise: the request and the parsing of its response are inside try/except.
RecognizeCaptcha ==
    /\ pc = "captcha_ocr"
    /\ IF ~ocr_service
       THEN /\ seccodeverify' = <<>>
            /\ calls' = [calls EXCEPT !.recognize = @ + 1]
            /\ UNCHANGED ocr_resp
       ELSE /\ \E resp \in OcrResponses :
                  /\ ocr_resp' = resp
                  /\ seccodeverify' = RecognizeResult(resp)
            /\ calls' = [calls EXCEPT !.recognize = @ + 1, !.ocr_post = @ + 1]
    /\ pc' = "captcha_check"
    /\ UNCHANGED <<ocr_service, login_ret, authVars, i, content_type, accepted, payload,
                   login_resp, driverVars, signVars, reportVars>>

\* if len(seccodeverify) == 4 and self._check_captcha(seccodeverify): break
\* otherwise sleep and go on with the next attempt.
CheckCaptcha ==
    /\ pc = "captcha_check"
    /\ IF HasCaptchaLen(seccodeverify)
       THEN /\ calls' = [calls EXCEPT !.check_captcha = @ + 1]
            /\ \E resp \in CheckResponses :
                  IF CheckCaptchaResult(resp)
                  THEN /\ accepted' = accepted \cup {seccodeverify}
                       /\ pc' = "login_post"
                       /\ UNCHANGED i
                  ELSE /\ pc' = "captcha_loop"
                       /\ i' = i + 1
                       /\ UNCHANGED accepted
       ELSE /\ pc' = "captcha_loop"
            /\ i' = i + 1
            /\ UNCHANGED <<calls, accepted>>
    /\ ocr_resp' = None
    /\ UNCHANGED <<ocr_service, login_ret, authVars, content_type, seccodeverify, payload,
                   login_resp, driverVars, signVars, reportVars>>

\* self.session.post(login_url, data=payload, ...) and the test of its body.
LoginPost ==
    /\ pc = "login_post"
    /\ calls' = [calls EXCEPT !.login_post = @ + 1]
    /\ payload' = [sent |-> TRUE, formhash |-> formhash, referer |-> referer,
                   seccodehash |-> seccodehash, seccodeverify |-> seccodeverify]
    /\ \/ /\ LoginRaise
          /\ UNCHANGED <<cookies, session_cookies, login_resp>>
       \/ /\ \E resp \in LoginResponses :
                /\ login_resp' = resp
                /\ session_cookies' = Update(session_cookies, resp.set_cookies)
                /\ IF LoginSucceeded(resp)
                   THEN /\ cookies' = MergedCookies(cookies, session_cookies')
                        /\ login_ret' = "true"
                   ELSE /\ login_ret' = "false"
                        /\ UNCHANGED cookies
          /\ pc' = "run_after_login"
    /\ UNCHANGED <<ocr_service, formhash, seccodehash, referer, session_referer,
                   referer_field, i, content_type, ocr_resp, seccodeverify, accepted, driverVars, signVars,
                   reportVars>>

(***************************************************************************)
(* run() after login()                                                     *)
(***************************************************************************)
\* Variant of RunLoginFailed with the `return` missing: run() goes on.
RunLoginFailedNoReturn ==
    /\ pc = "run_after_login"
    /\ login_ret = "false"
    /\ sent' = Append(sent, <<Line("login_failed")>>)
    /\ pc' = "run_driver"
    /\ UNCHANGED <<ocr_service, login_ret, authVars, captchaVars, driverVars, signVars,
                   user_info, infoLocals, notify_lines, run_ret>>

\* if not self.login(): send(notify_title, message); return
RunLoginFailed ==
    /\ pc = "run_after_login"
    /\ login_ret = "false"
    /\ sent' = Append(sent, <<Line("login_failed")>>)
    /\ run_ret' = "returned"
    /\ pc' = "done"
    /\ UNCHANGED <<ocr_service, login_ret, authVars, captchaVars, driverVars, signVars,
                   user_info, infoLocals, notify_lines>>

\* login() raised: run() has no handler either, the exception leaves run().
RunLoginRaised ==
    /\ pc = "run_after_login"
    /\ login_ret = "raised"
    /\ run_ret' = "raised"
    /\ pc' = "done"
    /\ UNCHANGED <<ocr_service, login_ret, authVars, captchaVars, driverVars, signVars,
                   user_info, infoLocals, notify_lines, sent>>

\* login() returned True: the locals of login() are gone and the request
\* history of that call is closed; "✔️ 登录成功" is appended.
RunLoginOk ==
    /\ pc = "run_after_login"
    /\ login_ret = "true"
    /\ notify_lines' = Append(notify_lines, Line("login_ok"))
    /\ i' = 0
    /\ content_type' = None
    /\ login_resp' = None
    /\ ocr_resp' = None
    /\ seccodeverify' = <<>>
    /\ calls' = ZeroCalls
    /\ accepted' = {}
    /\ payload' = NoPayload
    /\ pc' = "run_driver"
    /\ UNCHANGED <<ocr_service, login_ret, authVars, driverVars, signVars, user_info, infoLocals,
                   sent, run_ret>>

\* `with self.web_driver() as driver` in run(): Chrome starts, or raises out of run().
RunWebDriver ==
    /\ pc = "run_driver"
    /\ \E started \in BOOLEAN :
          IF started
          THEN /\ drivers_started' = drivers_started + 1
               /\ driver_cookies' = EmptyDict
               /\ pc' = "si_get_base"
               /\ UNCHANGED <<drivers_quit, run_ret>>
          ELSE /\ run_ret' = "raised"
               /\ pc' = "done"
               /\ UNCHANGED driverVars
    /\ UNCHANGED <<ocr_service, login_ret, authVars, captchaVars, signVars, user_info, infoLocals,
                   notify_lines, sent>>

(***************************************************************************)
(* do_sign_in, and the line run() appends for its result                   *)
(***************************************************************************)
SignInFrame ==
    UNCHANGED <<ocr_service, login_ret, authVars, captchaVars, drivers_started,
                drivers_quit, user_info, infoLocals, sent, run_ret>>

\* run(): "✔️ 签到操作完成" when do_sign_in returned True, else "❌ 签到操作失败".
SignInLine(ret) == IF ret THEN Line("sign_done") ELSE Line("sign_failed")

\* Variant of SignInReturn that returns without the assignment to the status.
SignInReturnKeepsStatus(status, ret) ==
    /\ UNCHANGED check_in_status
    /\ status_writes' = [status_writes EXCEPT !.do_sign_in = @ + 1]
    /\ sign_ret' = IF ret THEN "true" ELSE "false"
    /\ notify_lines' = Append(notify_lines, SignInLine(ret))
    /\ pc' = "ui_get_sign"

\* do_sign_in returns `ret` with the status set to `status`.
SignInReturn(status, ret) ==
    /\ check_in_status' = status
    /\ status_writes' = [status_writes EXCEPT !.do_sign_in = @ + 1]
    /\ sign_ret' = IF ret THEN "true" ELSE "false"
    /\ notify_lines' = Append(notify_lines, SignInLine(ret))
    /\ pc' = "ui_get_sign"

\* `except Exception` of do_sign_in: status 2, return False.
SignInExcept ==
    /\ SignInReturn(FAILED, FALSE)
    /\ log' = Append(log, Ev("exception"))
    /\ UNCHANGED driver_cookies

\* The step succeeded and do_sign_in goes on.
SignInGoOn(next, ev) ==
    /\ pc' = next
    /\ log' = Append(log, ev)
    /\ UNCHANGED <<check_in_status, status_writes, sign_ret, notify_lines>>

\* Variant of ClickStatus that tests the just-signed marker first.
ClickStatusJustFirst(new_page_source) ==
    IF JustSigned(new_page_source) THEN JUST_COMPLETED
    ELSE IF AlreadySigned(new_page_source) THEN ALREADY_DONE
    ELSE FAILED

\* Lines 264-274: the status the markup read after the click yields; FAILED
\* stands for "no marker", on which do_sign_in goes on to the refresh.
ClickStatus(new_page_source) ==
    IF AlreadySigned(new_page_source) THEN ALREADY_DONE
    ELSE IF JustSigned(new_page_source) THEN JUST_COMPLETED
    ELSE FAILED

\* Variant of RefreshStatus that also takes the just-signed marker for a success.
RefreshStatusLikeClick(refresh_page_source) == ClickStatus(refresh_page_source)
\* Variant of RefreshStatus that never takes the refreshed page for a success.
RefreshStatusNeverConfirms(refresh_page_source) == FAILED
\* Lines 278-286: the status the markup read after the refresh yields.
RefreshStatus(refresh_page_source) ==
    IF AlreadySigned(refresh_page_source) THEN ALREADY_DONE ELSE FAILED

\* The dict handed to driver.add_cookie for one cookie (lines 230-237).
AddCookieArg(cookie_name, cookie_value) ==
    [name |-> cookie_name, value |-> cookie_value, path |-> "/", domain |-> domain]

\* Variant of SignInGetBase that goes to the check-in page before the cookies
\* are injected.
SignInGetBaseThenSignPage ==
    /\ pc = "si_get_base"
    /\ \/ SignInExcept
       \/ /\ SignInGoOn("si_get_sign", Ev("get_base"))
          /\ \E jar \in AnonymousJars : driver_cookies' = jar
    /\ SignInFrame

\* driver.get(self.cfg.base_url): the unauthenticated navigation.
SignInGetBase ==
    /\ pc = "si_get_base"
    /\ \/ SignInExcept
       \/ /\ SignInGoOn("si_delete_cookies", Ev("get_base"))
          /\ \E jar \in AnonymousJars : driver_cookies' = jar
    /\ SignInFrame

\* Variant of SignInDeleteCookies that leaves the jar as it is.
SignInKeepCookies ==
    /\ pc = "si_delete_cookies"
    /\ \/ SignInExcept
       \/ /\ SignInGoOn("si_add_cookies", Ev("delete_all_cookies"))
          /\ UNCHANGED driver_cookies
    /\ SignInFrame

\* driver.delete_all_cookies()
SignInDeleteCookies ==
    /\ pc = "si_delete_cookies"
    /\ \/ SignInExcept
       \/ /\ SignInGoOn("si_add_cookies", Ev("delete_all_cookies"))
          /\ driver_cookies' = EmptyDict
    /\ SignInFrame

\* for cookie_name, cookie_value in self.cookies.items(): driver.add_cookie(...)
\* A raise leaves the cookies added before it in the jar.
SignInAddCookies ==
    /\ pc = "si_add_cookies"
    /\ \/ /\ SignInReturn(FAILED, FALSE)
          /\ \E S \in SUBSET (DOMAIN cookies) :
                /\ S # DOMAIN cookies
                /\ driver_cookies' = Update(driver_cookies, [k \in S |-> cookies[k]])
          /\ log' = Append(log, Ev("exception"))
       \/ /\ SignInGoOn("si_get_sign",
                        Added({AddCookieArg(k, cookies[k]) : k \in DOMAIN cookies}))
          /\ driver_cookies' =
                Update(driver_cookies,
                       [k \in DOMAIN cookies |-> AddCookieArg(k, cookies[k]).value])
    /\ SignInFrame

\* driver.get(sign_page_url)
SignInGetSign ==
    /\ pc = "si_get_sign"
    /\ \/ SignInExcept
       \/ SignInGoOn("si_wait", Ev("get_sign")) /\ UNCHANGED driver_cookies
    /\ SignInFrame

\* wait.until(presence_of_element_located((By.ID, "JD_sign")))
SignInWait ==
    /\ pc = "si_wait"
    /\ \/ SignInExcept
       \/ SignInGoOn("si_read", Ev("wait")) /\ UNCHANGED driver_cookies
    /\ SignInFrame

\* page_source on the initial load, and its classification.
SignInRead ==
    /\ pc = "si_read"
    /\ \/ SignInExcept
       \/ /\ \E page_source \in Markups :
                /\ log' = Append(log, Read(page_source))
                /\ IF AlreadySigned(page_source)
                   THEN SignInReturn(ALREADY_DONE, TRUE)
                   ELSE /\ pc' = "si_find"
                        /\ UNCHANGED <<check_in_status, status_writes, sign_ret, notify_lines>>
          /\ UNCHANGED driver_cookies
    /\ SignInFrame

\* sign_button = driver.find_element(By.ID, "JD_sign")
SignInFind ==
    /\ pc = "si_find"
    /\ \/ SignInExcept
       \/ SignInGoOn("si_shot_before", Ev("find_element")) /\ UNCHANGED driver_cookies
    /\ SignInFrame

\* driver.save_screenshot("before_sign.png")
SignInShotBefore ==
    /\ pc = "si_shot_before"
    /\ \/ SignInExcept
       \/ SignInGoOn("si_click", Ev("before_sign.png")) /\ UNCHANGED driver_cookies
    /\ SignInFrame

\* sign_button.click()
SignInClick ==
    /\ pc = "si_click"
    /\ \/ SignInExcept
       \/ SignInGoOn("si_shot_after", Ev("click")) /\ UNCHANGED driver_cookies
    /\ SignInFrame

\* time.sleep(2); driver.save_screenshot("after_sign.png")
SignInShotAfter ==
    /\ pc = "si_shot_after"
    /\ \/ SignInExcept
       \/ SignInGoOn("si_read_new", Ev("after_sign.png")) /\ UNCHANGED driver_cookies
    /\ SignInFrame

\* new_page_source after the click, and its classification.
SignInReadNew ==
    /\ pc = "si_read_new"
    /\ \/ SignInExcept
       \/ /\ \E new_page_source \in Markups :
                /\ log' = Append(log, Read(new_page_source))
                /\ IF ClickStatus(new_page_source) # FAILED
                   THEN SignInReturn(ClickStatus(new_page_source), TRUE)
                   ELSE /\ pc' = "si_refresh"
                        /\ UNCHANGED <<check_in_status, status_writes, sign_ret, notify_lines>>
          /\ UNCHANGED driver_cookies
    /\ SignInFrame

\* driver.refresh(); time.sleep(2)
SignInRefresh ==
    /\ pc = "si_refresh"
    /\ \/ SignInExcept
       \/ SignInGoOn("si_read_refresh", Ev("refresh")) /\ UNCHANGED driver_cookies
    /\ SignInFrame

\* refresh_page_source after the refresh, and the final classification.
SignInReadRefresh ==
    /\ pc = "si_read_refresh"
    /\ \/ SignInExcept
       \/ /\ \E refresh_page_source \in Markups :
                /\ log' = Append(log, Read(refresh_page_source))
                /\ SignInReturn(RefreshStatus(refresh_page_source),
                                RefreshStatus(refresh_page_source) # FAILED)
          /\ UNCHANGED driver_cookies
    /\ SignInFrame

(***************************************************************************)
(* fetch_user_info, and the line run() appends for its result              *)
(***************************************************************************)
UserInfoFrame ==
    UNCHANGED <<ocr_service, login_ret, authVars, captchaVars, driverVars, sign_ret,
                sent, run_ret>>

\* Variant of UserInfoLine that reports a missing report as a failed login.
UserInfoLineAsLoginFailure(info) ==
    IF info.kind = "report" THEN [kind |-> "user_info", info |-> info]
    ELSE Line("login_failed")

\* run(): the stripped report when user_info is truthy, else the warning line.
UserInfoLine(info) ==
    IF info.kind = "report" THEN [kind |-> "user_info", info |-> info]
    ELSE Line("info_unavailable")

\* fetch_user_info returns `info` to run(); its locals are gone.
UserInfoReturn(info) ==
    /\ user_info' = info
    /\ lookups' = NoLookups
    /\ xm' = None
    /\ stats' = NoStats
    /\ notify_lines' = Append(notify_lines, UserInfoLine(info))
    /\ pc' = "run_exit"

\* `except Exception` of fetch_user_info: a guarded error screenshot, return None.
UserInfoExcept ==
    /\ UserInfoReturn(NoneInfo)
    /\ \E saved \in BOOLEAN :
          log' = IF saved
                 THEN log \o <<Ev("exception"), Ev("error_screenshot.png")>>
                 ELSE Append(log, Ev("exception"))
    /\ UNCHANGED <<check_in_status, status_writes>>

\* The step succeeded and fetch_user_info goes on.
UserInfoGoOn(next, ev) ==
    /\ pc' = next
    /\ log' = Append(log, ev)
    /\ UNCHANGED <<check_in_status, status_writes, user_info, infoLocals, notify_lines>>

\* driver.get(sign_page_url); wait.until(... "qiandaobtnnum")
\* The log starts anew with this call.
UserInfoGetSign ==
    /\ pc = "ui_get_sign"
    /\ \/ /\ UserInfoReturn(NoneInfo)
          /\ \E saved \in BOOLEAN :
                log' = IF saved
                       THEN <<Ev("exception"), Ev("error_screenshot.png")>>
                       ELSE <<Ev("exception")>>
          /\ UNCHANGED <<check_in_status, status_writes>>
       \/ /\ pc' = "ui_fields"
          /\ log' = <<Ev("get_sign")>>
          /\ UNCHANGED <<check_in_status, status_writes, user_info, infoLocals, notify_lines>>
    /\ UserInfoFrame

\* The five find_element(By.ID, ...).get_attribute("value") lookups; `failing` is
\* the first one that throws, 0 when none does.
UserInfoFields ==
    /\ pc = "ui_fields"
    /\ \E failing \in 0 .. Len(FieldIds) :
          IF failing # 0 THEN UserInfoExcept
          ELSE UserInfoGoOn("ui_read", Ev("fields"))
    /\ UserInfoFrame

\* The status after the markers of page_content are tested (lines 312-317).
StatusFromPage(status, page_content) ==
    IF AlreadySigned(page_content) THEN ALREADY_DONE
    ELSE IF JustSigned(page_content) THEN JUST_COMPLETED
    ELSE status

\* Variant of InfoWrites with an assignment in every case.
InfoWritesAlways(page_content) == 1

\* The assignments to check_in_status lines 312-317 make: one when a marker is
\* in page_content, none otherwise (the if/elif has no else).
InfoWrites(page_content) ==
    IF AlreadySigned(page_content) \/ JustSigned(page_content) THEN 1 ELSE 0

\* page_content = driver.page_source and the re-confirmation of the status.
UserInfoRead ==
    /\ pc = "ui_read"
    /\ \/ UserInfoExcept
       \/ /\ \E page_content \in Markups :
                /\ log' = Append(log, Read(page_content))
                /\ check_in_status' = StatusFromPage(check_in_status, page_content)
                /\ status_writes' =
                      [status_writes EXCEPT
                          !.fetch_user_info = @ + InfoWrites(page_content)]
          /\ pc' = "ui_profile"
          /\ UNCHANGED <<user_info, infoLocals, notify_lines>>
    /\ UserInfoFrame

\* driver.get(profile_url); wait.until(... "ct"); save_screenshot("profile_page.png")
UserInfoProfile ==
    /\ pc = "ui_profile"
    /\ \/ UserInfoExcept
       \/ UserInfoGoOn("ui_extract", Ev("profile_page.png"))
    /\ UserInfoFrame

\* The xpaths loop: the first strategy with elements gives xm and ends the loop;
\* a falsy xm becomes the placeholder.
RECURSIVE FirstMatch(_, _)
FirstMatch(results, k) ==
    IF k > Len(results) THEN None
    ELSE IF results[k] = "no_elements" THEN FirstMatch(results, k + 1)
    ELSE IF results[k] = "empty_text" THEN Empty
    ELSE UserNames[k]
ResolveName(results) ==
    LET matched == FirstMatch(results, 1)
    IN  IF matched = None \/ matched = Empty THEN DefaultName ELSE matched

\* One pass of the if/elif chain over an element's text.
ScanOne(st, el) ==
    IF "jifen" \in el.has THEN [st EXCEPT !.jf = el.text]
    ELSE IF "weiwang" \in el.has THEN [st EXCEPT !.ww = el.text]
    ELSE IF "chepiao" \in el.has THEN [st EXCEPT !.cp = el.text]
    ELSE IF "gongxian" \in el.has THEN [st EXCEPT !.gx = el.text]
    ELSE st
RECURSIVE Scan(_, _)
Scan(st, els) == IF els = <<>> THEN st ELSE Scan(ScanOne(st, Head(els)), Tail(els))

\* jf = ww = cp = gx = "未知", the primary scan of #psts, and the broad scan when
\* the primary one raised (a raise of the broad scan is only printed).
ResolveStats(primary, fallback) ==
    LET first == Scan(UnknownStats, primary.els)
    IN  IF primary.raises THEN Scan(first, fallback.els) ELSE first

\* The info_text assembled from the name, the status label and the statistics.
InfoText(name, status, st) ==
    [kind |-> "report", name |-> name, label |-> check_in_labels[status + 1],
     jf |-> st.jf, ww |-> st.ww, cp |-> st.cp, gx |-> st.gx]

\* Lines 335-351: the name lookups and the placeholder.
UserInfoName ==
    /\ pc = "ui_extract"
    /\ \/ UserInfoExcept
       \/ /\ \E results \in NameResults :
                /\ lookups' = [NoLookups EXCEPT !.names = results]
                /\ xm' = ResolveName(results)
          /\ pc' = "ui_stats"
          /\ log' = Append(log, Ev("name"))
          /\ UNCHANGED <<check_in_status, status_writes, user_info, stats,
                         notify_lines>>
    /\ UserInfoFrame

\* Lines 353-384: the statistics; both scans are inside try/except, so this
\* step has no way into the handler of fetch_user_info.
UserInfoStats ==
    /\ pc = "ui_stats"
    /\ \E primary \in StatScans :
          \E fallback \in FallbackScans(primary) :
             /\ lookups' = [names |-> <<>>, primary |-> primary, fallback |-> fallback]
             /\ stats' = ResolveStats(primary, fallback)
    /\ pc' = "ui_report"
    /\ log' = Append(log, Ev("stats"))
    /\ UNCHANGED <<check_in_status, status_writes, user_info, xm, notify_lines>>
    /\ UserInfoFrame

\* Lines 386-398: info_text is assembled and returned.
UserInfoReport ==
    /\ pc = "ui_report"
    /\ UserInfoReturn(InfoText(xm, check_in_status, stats))
    /\ log' = Append(log, Ev("return"))
    /\ UNCHANGED <<check_in_status, status_writes>>
    /\ UserInfoFrame

\* The with-block of run() ends (driver.quit()), the lines are joined and sent.
RunExit ==
    /\ pc = "run_exit"
    /\ drivers_quit' = drivers_quit + WebDriverExitQuits(FALSE)
    /\ sent' = IF notify_lines # <<>> THEN Append(sent, notify_lines) ELSE sent
    /\ run_ret' = "returned"
    /\ pc' = "done"
    /\ UNCHANGED <<ocr_service, login_ret, authVars, captchaVars, drivers_started,
                   driver_cookies, signVars, user_info, infoLocals, notify_lines>>

Next ==
    \/ RunStart
    \/ FetchLoginFormDriver
    \/ FetchLoginFormGetSpace
    \/ FetchLoginFormReferer
    \/ FetchLoginFormGetReferer
    \/ FetchLoginFormFormhash
    \/ FetchLoginFormSeccode
    \/ FetchLoginFormCookies
    \/ CaptchaGet
    \/ CaptchaExhausted
    \/ CaptchaEncode
    \/ RecognizeCaptcha
    \/ CheckCaptcha
    \/ LoginPost
    \/ RunLoginFailed
    \/ RunLoginRaised
    \/ RunLoginOk
    \/ RunWebDriver
    \/ SignInGetBase
    \/ SignInDeleteCookies
    \/ SignInAddCookies
    \/ SignInGetSign
    \/ SignInWait
    \/ SignInRead
    \/ SignInFind
    \/ SignInShotBefore
    \/ SignInClick
    \/ SignInShotAfter
    \/ SignInReadNew
    \/ SignInRefresh
    \/ SignInReadRefresh
    \/ UserInfoGetSign
    \/ UserInfoFields
    \/ UserInfoRead
    \/ UserInfoProfile
    \/ UserInfoName
    \/ UserInfoStats
    \/ UserInfoReport
    \/ RunExit

Spec == Init /\ [][Next]_vars

(***************************************************************************)
(* Properties                                                              *)
(***************************************************************************)
\* The page_source reads and the click/screenshot/refresh operations of the log.
Reads == SelectSeq(log, LAMBDA e : e.op = "page_source")
Effects ==
    SelectSeq(log, LAMBDA e : e.op \in {"before_sign.png", "click", "after_sign.png",
                                        "refresh", "error_screenshot.png"})
\* The log is the one of a do_sign_in call.
InSignLog == log # <<>> /\ log[1].op = "get_base"
\* The browser is held by a with-block at these positions.
BrowserHeld ==
    pc \in {"fl_get_space", "fl_referer", "fl_get_referer", "fl_formhash", "fl_seccode",
            "fl_cookies", "si_get_base", "si_delete_cookies", "si_add_cookies",
            "si_get_sign", "si_wait", "si_read", "si_find", "si_shot_before", "si_click",
            "si_shot_after", "si_read_new", "si_refresh", "si_read_refresh",
            "ui_get_sign", "ui_fields", "ui_read", "ui_profile", "ui_extract", "ui_stats",
            "ui_report", "run_exit"}

\* C1: the credential POST is never issued while the stored formhash or the
\* stored seccodehash is empty (an empty or missing value attribute, an id that
\* is the bare prefix).
C1_PostNeverWithEmptyToken ==
    payload.sent =>
        /\ payload.formhash \notin {Empty, None}
        /\ payload.seccodehash # <<>>

\* C2: no exception propagates out of login(): whatever call raises, login()
\* returns False.
C2_LoginNeverRaises == login_ret # "raised"

\* C3: every run() ends having called send exactly once, and no error
\* propagates out of run().
C3_RunEndsWithOneSend == pc = "done" => (Len(sent) = 1 /\ run_ret = "returned")

\* C4: the captcha loop makes at most 5 image fetches, and a login() whose 5
\* iterations brought no accepted captcha returns False without raising.
C4_FiveAttemptsThenFalse ==
    /\ calls.captcha_get <= MaxAttempts
    /\ (login_ret # "none" /\ calls.captcha_get = MaxAttempts /\ accepted = {})
          => login_ret = "false"

\* C5: the credential POST is made only after the verification call accepted a
\* decoded text in the same login(), and submits exactly that text; with an OCR
\* adapter that only returns the empty string, login() returns False and
\* makes no POST.
C5_PostOnlyAfterAcceptance ==
    /\ pc = "login_post" => seccodeverify \in accepted
    /\ payload.sent => payload.seccodeverify \in accepted
    /\ ~ocr_service => (~payload.sent /\ pc # "login_post")
    /\ (~ocr_service /\ login_ret # "none") => login_ret = "false"

\* C6: in an iteration whose decoded text has a length other than 4 the
\* verification endpoint is not called, nothing is accepted, and the loop goes
\* to its next attempt (or to exhaustion).
C6_WrongLengthNeverVerified ==
    [][(pc = "captcha_check" /\ Len(seccodeverify) # 4)
          => /\ calls'.check_captcha = calls.check_captcha
             /\ accepted' = accepted
             /\ pc' = "captcha_loop"
             /\ i' = i + 1]_vars
C6_Witness ==
    /\ pc = "captcha_loop"
    /\ i = 2
    /\ Len(seccodeverify) = 5
    /\ calls.recognize = 2
    /\ calls.check_captcha = 0

\* C7: when login() returned False, run() sends the failure notification and
\* returns; no check-in browser is started, do_sign_in and fetch_user_info are
\* not called.
C7_LoginFailureShortCircuits ==
    login_ret = "false" =>
        /\ pc \in {"run_after_login", "done"}
        /\ drivers_started <= 1
        /\ drivers_started = drivers_quit
        /\ log = <<>>
        /\ sign_ret = "none"
        /\ user_info = NoInfo
        /\ notify_lines = <<>>
        /\ pc = "done" => (sent = << <<Line("login_failed")>> >> /\ run_ret = "returned")
C7_Witness ==
    /\ pc = "done"
    /\ login_ret = "false"
    /\ i = MaxAttempts
    /\ Len(sent) = 1

\* C8: every started browser is quit exactly once before the operation that
\* holds it finishes, on every exit path; outside the with-blocks, and after
\* login() or run() ended, no started browser is left running.
C8_EveryDriverQuitOnce ==
    /\ drivers_quit <= drivers_started
    /\ drivers_started <= drivers_quit + 1
    /\ ~BrowserHeld => drivers_quit = drivers_started
    /\ BrowserHeld => drivers_started = drivers_quit + 1
C8_Witness ==
    /\ pc = "done"
    /\ drivers_started = 2
    /\ drivers_quit = 2
    /\ sign_ret = "false"
    /\ user_info = NoneInfo

\* C9: when the markup read on the initial load of the check-in page holds an
\* already-signed marker, do_sign_in sets ALREADY_DONE and returns True with no
\* click, no refresh and no screenshot.
C9_AlreadySignedOnLoad ==
    (InSignLog /\ Reads # <<>> /\ Reads[1].markers \cap ALREADY_SIGNED # {})
        => /\ pc = "ui_get_sign"
           /\ check_in_status = ALREADY_DONE
           /\ sign_ret = "true"
           /\ notify_lines[Len(notify_lines)] = Line("sign_done")
           /\ Len(Reads) = 1
           /\ Effects = <<>>
C9_Witness ==
    /\ pc = "ui_get_sign"
    /\ InSignLog
    /\ Len(Reads) = 1
    /\ Reads[1].markers = {"nin jintian yijing qiandao guo le"}
    /\ check_in_status = ALREADY_DONE

\* C10: with no marker at all after the click and no already-signed marker after
\* the refresh, do_sign_in ends FAILED and returns False, having taken the
\* before screenshot, the click and the after screenshot once each, in that order.
C10_NoMarkerEndsFailed ==
    (/\ InSignLog
     /\ Len(Reads) = 3
     /\ Reads[2].markers = {}
     /\ Reads[3].markers \cap ALREADY_SIGNED = {})
        => /\ pc = "ui_get_sign"
           /\ check_in_status = FAILED
           /\ sign_ret = "false"
           /\ Effects = <<Ev("before_sign.png"), Ev("click"), Ev("after_sign.png"),
                          Ev("refresh")>>
C10_Witness ==
    /\ pc = "ui_get_sign"
    /\ InSignLog
    /\ Len(Reads) = 3
    /\ Reads[3].markers = {JUST_SIGNED}
    /\ sign_ret = "false"

\* The positions of do_sign_in, and the position just after its return, where
\* log still is the log of do_sign_in.
SignInPcs ==
    { "si_get_base", "si_delete_cookies", "si_add_cookies", "si_get_sign",
      "si_wait", "si_read", "si_find", "si_shot_before", "si_click",
      "si_shot_after", "si_read_new", "si_refresh", "si_read_refresh" }
SignInReturned == pc = "ui_get_sign"
ScreenshotOps == { "before_sign.png", "after_sign.png", "error_screenshot.png" }

\* C11: a do_sign_in in which a browser call raised has taken a screenshot after
\* the exception, has set the status to FAILED and has returned False.
C11_ExceptionTakesScreenshot ==
    (SignInReturned /\ \E k \in DOMAIN log : log[k].op = "exception")
        => /\ check_in_status = FAILED
           /\ sign_ret = "false"
           /\ \E k, s \in DOMAIN log :
                /\ log[k].op = "exception"
                /\ s > k
                /\ log[s].op \in ScreenshotOps

\* C12: once the cookies have been injected, the cookie jar of the browser is
\* exactly the cookie mapping held by the instance: no cookie of the
\* unauthenticated navigation is left and none of the mapping is missing.
C12_BrowserJarIsCookieMapping ==
    ((pc \in SignInPcs \/ SignInReturned)
        /\ \E k \in DOMAIN log : log[k].op = "add_cookies")
        => driver_cookies = cookies
C12_Witness ==
    /\ pc = "si_get_sign"
    /\ log[Len(log)].op = "add_cookies"
    /\ Cardinality(DOMAIN cookies) >= 2
    /\ driver_cookies["sid"] = cookies["sid"]
    /\ "lastvisit" \notin DOMAIN driver_cookies

\* C13: in do_sign_in a navigation to the check-in page is always the fourth
\* browser call, after the unauthenticated navigation, the clearing of all
\* cookies, and the injection of every cookie of the mapping with its value,
\* the domain of the site and the path "/".
C13_BridgeOrder ==
    (pc \in SignInPcs \/ SignInReturned)
        => \A k \in DOMAIN log :
              log[k].op = "get_sign"
                 => /\ k = 4
                    /\ log[1].op = "get_base"
                    /\ log[2].op = "delete_all_cookies"
                    /\ log[3].op = "add_cookies"
                    /\ {c.name : c \in log[3].added} = DOMAIN cookies
                    /\ \A c \in log[3].added :
                          /\ c.value = cookies[c.name]
                          /\ c.domain = "xsijishe.com"
                          /\ c.path = "/"
C13_Witness ==
    /\ pc = "si_wait"
    /\ Len(log) = 4
    /\ log[4].op = "get_sign"
    /\ Cardinality(log[3].added) >= 2

\* run() has returned from fetch_user_info (and so from do_sign_in before it).
BothPhasesDone == pc \in {"run_exit", "done"} /\ sign_ret # "none"
Markers == ALREADY_SIGNED \cup {JUST_SIGNED}

\* C14: the status is FAILED until do_sign_in sets it, and a run() that went
\* through do_sign_in and fetch_user_info has assigned the status exactly once
\* in each of them.
C14_StatusWrittenOncePerPhase ==
    /\ sign_ret = "none" => (check_in_status = FAILED /\ status_writes = NoWrites)
    /\ BothPhasesDone
          => status_writes = [do_sign_in |-> 1, fetch_user_info |-> 1]

\* C14, amended: the status is FAILED until do_sign_in sets it; do_sign_in
\* assigns it exactly once; fetch_user_info assigns it at most once, namely
\* once when the check-in page it read holds a marker and not at all when the
\* page holds none or was never read.
C14_StatusWrittenOnceThenAtMostOnce ==
    /\ sign_ret = "none" => (check_in_status = FAILED /\ status_writes = NoWrites)
    /\ sign_ret # "none" => status_writes.do_sign_in = 1
    /\ status_writes.fetch_user_info <= 1
    /\ BothPhasesDone
          => (status_writes.fetch_user_info = 1
                <=> /\ Reads # <<>>
                    /\ Reads[1].markers \cap Markers # {})
C14_Witness ==
    /\ pc = "done"
    /\ user_info.kind = "report"
    /\ Reads[1].markers = {}
    /\ status_writes = [do_sign_in |-> 1, fetch_user_info |-> 0]
    /\ check_in_status = JUST_COMPLETED

\* The keyword of each statistic, and whether some element visited by the
\* primary scan, or by the broad scan when it ran, carries that keyword.
StatKeyword == [jf |-> "jifen", ww |-> "weiwang", cp |-> "chepiao", gx |-> "gongxian"]
KeywordSeen(looked, f) ==
    \E scan \in {looked.primary, looked.fallback} :
       \E k \in DOMAIN scan.els : StatKeyword[f] \in scan.els[k].has

\* C15: the statistics step always goes on to the report, whichever scan
\* raised, and leaves "未知" in every statistic whose keyword no visited element
\* carries; the report step then returns the report with these statistics.
C15_UnfoundStatsStayUnknown ==
    [][/\ pc = "ui_stats"
          => /\ pc' = "ui_report"
             /\ \A f \in DOMAIN StatKeyword :
                   ~KeywordSeen(lookups', f) => stats'[f] = Unknown
       /\ pc = "ui_report"
          => /\ user_info'.kind = "report"
             /\ \A f \in DOMAIN StatKeyword : user_info'[f] = stats[f]]_vars
C15_Witness ==
    /\ pc = "ui_report"
    /\ lookups.primary.raises
    /\ lookups.fallback.raises
    /\ stats.jf # Unknown
    /\ stats.cp = Unknown
    /\ stats.gx = Unknown

\* C16: the name is the text of the first strategy, in order, whose element has
\* a non-empty text, and the placeholder only when no strategy has one.
C16_FirstNonEmptyName ==
    pc = "ui_stats"
        => LET texts == {k \in DOMAIN lookups.names : lookups.names[k] = "text"}
           IN  IF texts = {} THEN xm = DefaultName
               ELSE xm = UserNames[CHOOSE k \in texts : \A j \in texts : k <= j]

\* C17: when one of the five field lookups of fetch_user_info throws,
\* fetch_user_info returns None, run() goes on, and the notification it sends is
\* the login-success line, the line of the check-in outcome and the
\* information-unavailable line.
C17_FieldLookupFailureKeepsLines ==
    (/\ pc \in {"run_exit", "done"}
     /\ Len(log) >= 2
     /\ log[1].op = "get_sign"
     /\ log[2].op = "exception")
        => /\ user_info = NoneInfo
           /\ notify_lines =
                 << Line("login_ok"),
                    IF sign_ret = "true" THEN Line("sign_done") ELSE Line("sign_failed"),
                    Line("info_unavailable") >>
           /\ run_ret # "raised"
           /\ pc = "done" => (sent = <<notify_lines>> /\ run_ret = "returned")
C17_Witness ==
    /\ pc = "done"
    /\ Len(log) >= 2
    /\ log[1].op = "get_sign"
    /\ log[2].op = "exception"
    /\ sign_ret = "true"
    /\ Len(sent) = 1
    /\ sent[1][3] = Line("info_unavailable")

\* The log is the log of do_sign_in and holds the read made after the click.
InSignIn == (pc \in SignInPcs \/ SignInReturned) /\ InSignLog
Count(op) == Len(SelectSeq(log, LAMBDA e : e.op = op))

\* C18: the markup read after the click decides: an already-signed marker gives
\* ALREADY_DONE and True, also when the just-signed marker is there too;
\* otherwise the just-signed marker gives JUST_COMPLETED and True; in both cases
\* do_sign_in has returned without a refresh or a further read. With neither
\* marker do_sign_in goes on to the refresh.
C18_PostClickClassification ==
    (InSignIn /\ Len(Reads) >= 2)
        => LET markers == Reads[2].markers
               Ended(status) ==
                   /\ SignInReturned
                   /\ check_in_status = status
                   /\ sign_ret = "true"
                   /\ Len(Reads) = 2
                   /\ log[Len(log)].op = "page_source"
                   /\ Count("refresh") = 0
           IN  IF markers \cap ALREADY_SIGNED # {} THEN Ended(ALREADY_DONE)
               ELSE IF JUST_SIGNED \in markers THEN Ended(JUST_COMPLETED)
               ELSE log[Len(log)].op = "page_source" /\ Len(Reads) = 2
                       => pc = "si_refresh" /\ sign_ret = "none"
C18_Witness ==
    /\ SignInReturned
    /\ InSignLog
    /\ Len(Reads) = 2
    /\ JUST_SIGNED \in Reads[2].markers
    /\ Reads[2].markers \cap ALREADY_SIGNED # {}
    /\ check_in_status = ALREADY_DONE
    /\ Count("click") = 1

\* C19: do_sign_in clicks at most once, refreshes at most once and reads the
\* markup at most once after the refresh; that read ends it: ALREADY_DONE and
\* True on an already-signed marker, FAILED and False on anything else, the
\* just-signed marker alone included.
C19_ConfirmationIsFinal ==
    InSignIn
        => /\ Count("click") <= 1
           /\ Count("refresh") <= 1
           /\ Len(Reads) <= 3
           /\ Count("refresh") = 1 => Len(Reads) >= 2
           /\ Len(Reads) = 3
                 => /\ SignInReturned
                    /\ Count("refresh") = 1
                    /\ log[Len(log)].op = "page_source"
                    /\ log[Len(log) - 1].op = "refresh"
                    /\ IF Reads[3].markers \cap ALREADY_SIGNED # {}
                       THEN check_in_status = ALREADY_DONE /\ sign_ret = "true"
                       ELSE check_in_status = FAILED /\ sign_ret = "false"
C19_Witness ==
    /\ SignInReturned
    /\ InSignLog
    /\ Len(Reads) = 3
    /\ Reads[3].markers \cap ALREADY_SIGNED # {}
    /\ check_in_status = ALREADY_DONE
    /\ sign_ret = "true"
    /\ Count("refresh") = 1

\* C20: a captcha fetch whose response has no "image" in its Content-Type ends
\* the iteration at once: the loop is back at its head with the next index, and
\* neither _recognize_captcha, nor the OCR service, nor _check_captcha has been
\* called.
C20_NonImageSkipsOcrAndCheck ==
    [][(/\ pc = "captcha_loop"
        /\ calls'.captcha_get = calls.captcha_get + 1
        /\ login_ret' # "raised"
        /\ \A k \in DOMAIN content_type' : content_type'[k] # "image")
           => /\ pc' = "captcha_loop"
              /\ i' = i + 1
              /\ calls'.recognize = calls.recognize
              /\ calls'.ocr_post = calls.ocr_post
              /\ calls'.check_captcha = calls.check_captcha
              /\ seccodeverify' = seccodeverify
              /\ accepted' = accepted]_vars
C20_Witness ==
    /\ pc = "captcha_loop"
    /\ i = 2
    /\ calls.captcha_get = 2
    /\ content_type = <<"text", "/", "html">>
    /\ calls.recognize = 0
    /\ calls.check_captcha = 0

\* C21: when the account-space page has no referer input, _fetch_login_form
\* ends at the wait for it and login() returns False: the referer is never
\* navigated to, no captcha image is fetched, neither _recognize_captcha, the
\* OCR service nor _check_captcha is called, and no credentials are posted.
C21_NoRefererFieldEndsLogin ==
    referer_field = "absent"
        => /\ pc \in {"fl_referer", "run_after_login", "done"}
           /\ pc # "fl_referer" => login_ret = "false"
           /\ referer = Empty
           /\ session_referer = "https://xsijishe.com"
           /\ calls = ZeroCalls
           /\ accepted = {}
           /\ ~payload.sent
           /\ run_ret # "raised"
C21_Witness ==
    /\ referer_field = "absent"
    /\ pc = "run_after_login"
    /\ login_ret = "false"
    /\ drivers_started = 1
    /\ drivers_quit = 1

\* C22: when the credential POST got a response, login() returns True exactly
\* when the body holds the welcome phrase; then self.cookies is the union of the
\* cookies taken from the browser and the cookies of the HTTP session, the
\* session's value standing for a shared name; without the phrase login()
\* returns False and self.cookies is as it was.
C22_WelcomeDecidesAndMergesCookies ==
    [][(pc = "login_post" /\ login_ret' # "raised")
          => /\ login_ret' = IF login_resp'.welcome THEN "true" ELSE "false"
             /\ IF login_resp'.welcome
                THEN /\ DOMAIN cookies' = DOMAIN cookies \cup DOMAIN session_cookies'
                     /\ \A k \in DOMAIN cookies' :
                           cookies'[k] = IF k \in DOMAIN session_cookies'
                                         THEN session_cookies'[k]
                                         ELSE cookies[k]
                ELSE cookies' = cookies]_vars
C22_Witness ==
    /\ pc = "run_after_login"
    /\ payload.sent
    /\ login_ret = "true"
    /\ login_resp.welcome
    /\ DOMAIN cookies = {"sid", "auth", "saltkey"}
    /\ cookies["auth"] = "a2"
    /\ cookies["sid"] = "s1"

\* Responses of the OCR service that hold no text result.
NoTextKinds == {"raise", "not_ok", "bad_json", "no_key", "not_str"}

\* C23: a call of _recognize_captcha always returns to the loop, never raising;
\* with no OCR endpoint configured it returns the empty text and makes no
\* request; with one it makes exactly one request, and returns the empty text
\* when the request raised, the status was not OK or the body held no text.
C23_RecognizeNeverRaises ==
    [][pc = "captcha_ocr"
          => /\ pc' = "captcha_check"
             /\ login_ret' = login_ret
             /\ calls'.recognize = calls.recognize + 1
             /\ IF ~ocr_service
                THEN /\ calls'.ocr_post = calls.ocr_post
                     /\ seccodeverify' = <<>>
                ELSE /\ calls'.ocr_post = calls.ocr_post + 1
                     /\ ocr_resp'.kind \in NoTextKinds => seccodeverify' = <<>>]_vars
C23_Witness ==
    /\ pc = "captcha_check"
    /\ ocr_service
    /\ ocr_resp.kind = "not_str"
    /\ seccodeverify = <<>>
    /\ calls.ocr_post = 2
    /\ calls.recognize = 2

\* A report was sent by run() after a successful login: the login line, the
\* line of the check-in outcome and the user information.
ReportSent ==
    /\ pc = "done"
    /\ login_ret = "true"
    /\ Len(sent) = 1
    /\ Len(sent[1]) = 3
    /\ sent[1][3].kind = "user_info"

\* C24: in a report sent after a successful login the line of the check-in
\* outcome agrees with the status label of the user information: the failure
\* line goes with "签到失败" only, the completion line with "已签到" or "签到成功" only.
C24_OutcomeLineAgreesWithLabel ==
    ReportSent
        => LET outcome == sent[1][2]
               label == sent[1][3].info.label
           IN  /\ outcome = Line("sign_failed") => label = check_in_labels[FAILED + 1]
               /\ outcome = Line("sign_done")
                     => label \in { check_in_labels[ALREADY_DONE + 1],
                                    check_in_labels[JUST_COMPLETED + 1] }

\* C25: the status is always 0, 1 or 2, so it indexes one of the three labels;
\* and when do_sign_in has returned, it returned True exactly with status 0 or 1
\* and False exactly with status 2.
C25_StatusInRangeAndMatchesReturn ==
    /\ check_in_status \in {ALREADY_DONE, JUST_COMPLETED, FAILED}
    /\ check_in_status \in {0, 1, 2}
    /\ check_in_status + 1 \in DOMAIN check_in_labels
    /\ SignInReturned
          => /\ sign_ret \in {"true", "false"}
             /\ sign_ret = "true" <=> check_in_status \in {0, 1}
             /\ sign_ret = "false" <=> check_in_status = 2
C25_Witness ==
    /\ SignInReturned
    /\ sign_ret = "true"
    /\ check_in_status = JUST_COMPLETED
    /\ Len(Reads) = 2

====
